---- MODULE Spec2Model ----
(***************************************************************************)
(* Model of alcohol_tracker.py: the validated input readers, the generic   *)
(* table layer over the SQLite file (create_table, insert_into_table,      *)
(* entry_already_exists, view_table), the two entry builders and the main  *)
(* script.                                                                 *)
(*                                                                         *)
(* Text is a sequence of one-character strings.  A cell value is a record  *)
(* [k, n, s]: k is the Python/SQLite kind, n the number (an integer for    *)
(* "int", a number of tenths for "real"), s the characters of a "text".    *)
(***************************************************************************)
EXTENDS Integers, Sequences, FiniteSets, TLC

VARIABLES db, open, stmt, pc, call, out, ret, err, ins, stdin, nread, rejected, writes

vars == <<db, open, stmt, pc, call, out, ret, err, ins, stdin, nread, rejected, writes>>

(***************************************************************************)
(* Bounds of the model.                                                    *)
(***************************************************************************)
MaxRows == 3
MaxSeedRows == 2
MaxSeedId == 2
MaxApiRows == 2
MaxLines == 3
MaxExtId == 3
MaxExtWrites == 1

(***************************************************************************)
(* Values.                                                                 *)
(***************************************************************************)
IntV(n) == [k |-> "int", n |-> n, s |-> <<>>]
RealV(t) == [k |-> "real", n |-> t, s |-> <<>>]
TextV(s) == [k |-> "text", n |-> 0, s |-> s]
NoneV == [k |-> "null", n |-> 0, s |-> <<>>]
NanV == [k |-> "nan", n |-> 0, s |-> <<>>]

Digits == {"0", "1", "2", "3", "4", "5", "6", "7", "8", "9"}
Letters ==
  {"a", "b", "c", "d", "e", "f", "g", "h", "i", "j", "k", "l", "m", "n", "o", "p", "q", "r",
   "s", "t", "u", "v", "w", "x", "y", "z", "A", "B", "C", "D", "E", "F", "G", "H", "I", "J",
   "K", "L", "M", "N", "O", "P", "Q", "R", "S", "T", "U", "V", "W", "X", "Y", "Z"}

DigitVal(c) ==
  CASE c = "0" -> 0 [] c = "1" -> 1 [] c = "2" -> 2 [] c = "3" -> 3
    [] c = "4" -> 4 [] c = "5" -> 5 [] c = "6" -> 6 [] c = "7" -> 7
    [] c = "8" -> 8 [] c = "9" -> 9

DigitChar(d) ==
  CASE d = 0 -> "0" [] d = 1 -> "1" [] d = 2 -> "2" [] d = 3 -> "3"
    [] d = 4 -> "4" [] d = 5 -> "5" [] d = 6 -> "6" [] d = 7 -> "7"
    [] d = 8 -> "8" [] d = 9 -> "9"

RECURSIVE LStrip(_)
LStrip(s) == IF Len(s) > 0 /\ Head(s) = " " THEN LStrip(Tail(s)) ELSE s

RECURSIVE RStrip(_)
RStrip(s) ==
  IF Len(s) > 0 /\ s[Len(s)] = " " THEN RStrip(SubSeq(s, 1, Len(s) - 1)) ELSE s

Strip(s) == RStrip(LStrip(s))

HasSign(s) == Len(s) > 0 /\ Head(s) \in {"+", "-"}
Unsigned(s) == IF HasSign(s) THEN Tail(s) ELSE s
Sign(s) == IF Len(s) > 0 /\ Head(s) = "-" THEN -1 ELSE 1

AllDigits(s) == Len(s) > 0 /\ \A i \in 1..Len(s) : s[i] \in Digits

RECURSIVE DigitsVal(_)
DigitsVal(s) ==
  IF Len(s) = 0 THEN 0
  ELSE IF s[Len(s)] = "_" THEN DigitsVal(SubSeq(s, 1, Len(s) - 1))
  ELSE 10 * DigitsVal(SubSeq(s, 1, Len(s) - 1)) + DigitVal(s[Len(s)])

RECURSIVE NatText(_)
NatText(n) ==
  IF n < 10 THEN <<DigitChar(n)>> ELSE Append(NatText(n \div 10), DigitChar(n % 10))

IntText(n) == IF n < 0 THEN <<"-">> \o NatText(-n) ELSE NatText(n)

\* text of a real held in tenths, the way both SQLite and str() print it: 2.5, 40.0
RealText(t) ==
  IF t < 0 THEN <<"-">> \o NatText((-t) \div 10) \o <<".">> \o NatText((-t) % 10)
  ELSE NatText(t \div 10) \o <<".">> \o NatText(t % 10)

DotAt(s) == IF \E i \in 1..Len(s) : s[i] = "." THEN CHOOSE i \in 1..Len(s) : s[i] = "." ELSE 0

\* a decimal with a point and at most one digit after it: "12.5", "7.", ".5"
IsDecimal(u) ==
  LET d == DotAt(u)
      ip == SubSeq(u, 1, d - 1)
      fp == SubSeq(u, d + 1, Len(u))
  IN /\ d > 0
     /\ Len(ip) + Len(fp) > 0
     /\ Len(fp) <= 1
     /\ \A i \in 1..Len(ip) : ip[i] \in Digits
     /\ \A i \in 1..Len(fp) : fp[i] \in Digits

DecimalTenths(u) ==
  LET d == DotAt(u)
      ip == SubSeq(u, 1, d - 1)
      fp == SubSeq(u, d + 1, Len(u))
  IN 10 * DigitsVal(ip) + DigitsVal(fp)


(***************************************************************************)
(* Python conversions used by the readers.                                 *)
(***************************************************************************)
\* int(text) succeeds: surrounding blanks, a sign, digits with single
\* underscores between digits
IsPyInt(text) ==
  LET u == Unsigned(Strip(text))
  IN /\ Len(u) > 0
     /\ \A i \in 1..Len(u) : u[i] \in Digits \cup {"_"}
     /\ u[1] # "_"
     /\ u[Len(u)] # "_"
     /\ \A i \in 1..(Len(u) - 1) : ~(u[i] = "_" /\ u[i + 1] = "_")

PyInt(text) == Sign(Strip(text)) * DigitsVal(Unsigned(Strip(text)))

\* float(text) succeeds, for the texts the model feeds it: an integer or a
\* decimal, or "nan"
IsPyFloat(text) ==
  LET t == Strip(text)
  IN \/ IsPyInt(text)
     \/ IsDecimal(Unsigned(t))
     \/ Unsigned(t) = <<"n", "a", "n">>

PyFloat(text) ==
  LET t == Strip(text)
  IN IF Unsigned(t) = <<"n", "a", "n">> THEN NanV
     ELSE IF IsPyInt(text) THEN RealV(10 * PyInt(text))
     ELSE RealV(Sign(t) * DecimalTenths(Unsigned(t)))

\* (mutation) isalnum() in place of isalpha()
IsAlnum(text) == Len(text) > 0 /\ \A i \in 1..Len(text) : text[i] \in Letters \cup Digits

\* str.isalpha(): at least one character and letters only
IsAlpha(text) == Len(text) > 0 /\ \A i \in 1..Len(text) : text[i] \in Letters

(***************************************************************************)
(* The SQLite store: storage classes, column affinity, comparison.         *)
(***************************************************************************)
Col(name, type) == [name |-> name, type |-> type]

\* SQLite reads a text as a number when it is a well-formed integer or real
\* literal (blanks around it allowed, no underscores)
SqlIsInt(text) == AllDigits(Unsigned(Strip(text)))
SqlIsReal(text) == IsDecimal(Unsigned(Strip(text)))

SqlNumber(text) ==
  LET t == Strip(text)
  IN IF SqlIsInt(text) THEN IntV(Sign(t) * DigitsVal(Unsigned(t)))
     ELSE RealV(Sign(t) * DecimalTenths(Unsigned(t)))

\* a real that holds an integer is stored as that integer in a numeric column
Integral(v) == IF v.k = "real" /\ v.n % 10 = 0 THEN IntV(v.n \div 10) ELSE v

\* the value a bound parameter has once bound: a NaN float is bound as NULL
Bind(v) == IF v.k = "nan" THEN NoneV ELSE v

\* the value stored in (or compared with) a column of the declared type
Affinity(type, v) ==
  LET b == Bind(v)
  IN CASE type = "INTEGER" ->
            IF b.k = "text" /\ (SqlIsInt(b.s) \/ SqlIsReal(b.s)) THEN Integral(SqlNumber(b.s))
            ELSE Integral(b)
       [] type = "REAL" ->
            IF b.k = "text" /\ (SqlIsInt(b.s) \/ SqlIsReal(b.s))
            THEN (LET x == SqlNumber(b.s) IN IF x.k = "int" THEN RealV(10 * x.n) ELSE x)
            ELSE IF b.k = "int" THEN RealV(10 * b.n)
            ELSE b
       [] type = "TEXT" ->
            IF b.k = "int" THEN TextV(IntText(b.n))
            ELSE IF b.k = "real" THEN TextV(RealText(b.n))
            ELSE b
       [] OTHER -> b

Tenths(v) == IF v.k = "int" THEN 10 * v.n ELSE v.n
IsNum(v) == v.k \in {"int", "real"}

\* SQL "=" on two stored values: NULL equals nothing
SqlEq(a, b) ==
  \/ IsNum(a) /\ IsNum(b) /\ Tenths(a) = Tenths(b)
  \/ a.k = "text" /\ b.k = "text" /\ a.s = b.s

\* SQL ordering of non-NULL values: numbers before texts
SqlLess(a, b) ==
  \/ IsNum(a) /\ IsNum(b) /\ Tenths(a) < Tenths(b)
  \/ IsNum(a) /\ b.k = "text"

\* Python "==" on two cells
PyEq(a, b) ==
  \/ IsNum(a) /\ IsNum(b) /\ Tenths(a) = Tenths(b)
  \/ a.k = "text" /\ b.k = "text" /\ a.s = b.s
  \/ a.k = "null" /\ b.k = "null"

RowEq(r, v) == Len(r) = Len(v) /\ \A i \in 1..Len(r) : PyEq(r[i], v[i])

NoTable == [exists |-> FALSE, cols |-> <<>>, rows |-> <<>>]

ColIndex(cols, name) ==
  IF \E i \in 1..Len(cols) : cols[i].name = name
  THEN CHOOSE i \in 1..Len(cols) : cols[i].name = name /\ \A j \in 1..(i - 1) : cols[j].name # name
  ELSE 0

DistinctNames(cols) ==
  \A i, j \in 1..Len(cols) : cols[i].name = cols[j].name => i = j


\* character order of the texts the model compares (byte order)
Ord(c) ==
  CASE c = " " -> 32 [] c = "+" -> 43 [] c = "-" -> 45 [] c = "." -> 46
    [] c \in Digits -> 48 + DigitVal(c)
    [] c = "_" -> 95
    [] OTHER -> 97   \* the letters, which the model never has to order

RECURSIVE TextLess(_, _)
TextLess(a, b) ==
  IF Len(b) = 0 THEN FALSE
  ELSE IF Len(a) = 0 THEN TRUE
  ELSE IF Ord(Head(a)) # Ord(Head(b)) THEN Ord(Head(a)) < Ord(Head(b))
  ELSE TextLess(Tail(a), Tail(b))

SqlGreater(a, b) ==
  \/ SqlLess(b, a)
  \/ a.k = "text" /\ b.k = "text" /\ TextLess(b.s, a.s)

(***************************************************************************)
(* The statements the functions execute, as functions of the store.        *)
(***************************************************************************)
\* (mutation) the table is created anew even when it exists
CreateOrReplace(d, table, columns) ==
  IF ~DistinctNames(columns) THEN [ok |-> FALSE, db |-> d]
  ELSE [ok |-> TRUE,
        db |-> [d EXCEPT ![table] = [exists |-> TRUE, cols |-> columns, rows |-> <<>>]]]

\* CREATE TABLE IF NOT EXISTS table(columns)
CreateIfNotExists(d, table, columns) ==
  IF Len(columns) = 0 THEN [ok |-> FALSE, db |-> d]
  ELSE IF d[table].exists THEN [ok |-> TRUE, db |-> d]
  ELSE IF ~DistinctNames(columns) THEN [ok |-> FALSE, db |-> d]
  ELSE [ok |-> TRUE,
        db |-> [d EXCEPT ![table] = [exists |-> TRUE, cols |-> columns, rows |-> <<>>]]]

StoredRow(cols, values) == [i \in 1..Len(values) |-> Affinity(cols[i].type, values[i])]

\* (mutation) values beyond the columns are dropped, missing ones stored as NULL
InsertValuesFitted(d, table, values) ==
  IF ~d[table].exists \/ Len(values) = 0
  THEN [ok |-> FALSE, db |-> d]
  ELSE [ok |-> TRUE,
        db |-> [d EXCEPT ![table].rows =
                  Append(@, [i \in 1..Len(d[table].cols) |->
                               IF i <= Len(values)
                               THEN Affinity(d[table].cols[i].type, values[i])
                               ELSE NoneV])]]

\* (mutation) the new row is put before the stored rows
InsertValuesFirst(d, table, values) ==
  IF ~d[table].exists \/ Len(values) = 0 \/ Len(values) # Len(d[table].cols)
  THEN [ok |-> FALSE, db |-> d]
  ELSE [ok |-> TRUE,
        db |-> [d EXCEPT ![table].rows = <<StoredRow(d[table].cols, values)>> \o @]]

\* (mutation) the new row takes the place of the last stored row
InsertValuesOver(d, table, values) ==
  IF ~d[table].exists \/ Len(values) = 0 \/ Len(values) # Len(d[table].cols)
  THEN [ok |-> FALSE, db |-> d]
  ELSE [ok |-> TRUE,
        db |-> [d EXCEPT ![table].rows =
                  IF Len(@) = 0 THEN <<StoredRow(d[table].cols, values)>>
                  ELSE [@ EXCEPT ![Len(@)] = StoredRow(d[table].cols, values)]]]

\* INSERT INTO table VALUES (?, ..., ?)
InsertValues(d, table, values) ==
  IF ~d[table].exists \/ Len(values) = 0 \/ Len(values) # Len(d[table].cols)
  THEN [ok |-> FALSE, db |-> d]
  ELSE [ok |-> TRUE,
        db |-> [d EXCEPT ![table].rows = Append(@, StoredRow(d[table].cols, values))]]

\* one "key = ?" condition on a row
Matches(cols, row, cond) ==
  LET i == ColIndex(cols, cond[1])
  IN SqlEq(row[i], Affinity(cols[i].type, cond[2]))

\* SELECT COUNT(*) FROM table WHERE key = ? AND ...
CountWhere(d, table, kwargs) ==
  IF \/ ~d[table].exists
     \/ Len(kwargs) = 0
     \/ \E j \in 1..Len(kwargs) : ColIndex(d[table].cols, kwargs[j][1]) = 0
  THEN [ok |-> FALSE, n |-> 0]
  ELSE [ok |-> TRUE,
        n |-> Cardinality({r \in 1..Len(d[table].rows) :
                 \A j \in 1..Len(kwargs) :
                    Matches(d[table].cols, d[table].rows[r], kwargs[j])})]

\* SELECT * FROM table: the column names and the rows, in storage order
SelectAll(d, table) ==
  IF ~d[table].exists THEN [ok |-> FALSE, cols |-> <<>>, rows |-> <<>>]
  ELSE [ok |-> TRUE,
        cols |-> [i \in 1..Len(d[table].cols) |-> d[table].cols[i].name],
        rows |-> d[table].rows]

\* (mutation) COUNT(*) read in place of MAX(id)
SelectCount(d, table) ==
  IF ~d[table].exists THEN [ok |-> FALSE, v |-> NoneV]
  ELSE IF Len(d[table].rows) = 0 THEN [ok |-> TRUE, v |-> NoneV]
  ELSE [ok |-> TRUE, v |-> IntV(Len(d[table].rows))]

\* SELECT MAX(id) FROM table: NULL ids are skipped, no row gives NULL
SelectMaxId(d, table) ==
  LET i == ColIndex(d[table].cols, "id")
      ids == {d[table].rows[r][i] : r \in 1..Len(d[table].rows)} \ {NoneV}
  IN IF ~d[table].exists \/ i = 0 THEN [ok |-> FALSE, v |-> NoneV]
     ELSE IF ids = {} THEN [ok |-> TRUE, v |-> NoneV]
     ELSE [ok |-> TRUE, v |-> CHOOSE m \in ids : \A x \in ids : ~SqlGreater(x, m)]

\* (mutation) the increment is applied twice
NextIdSkips(max_id) ==
  IF max_id.k = "null" THEN [ok |-> TRUE, v |-> IntV(1)]
  ELSE IF max_id.k = "int" THEN [ok |-> TRUE, v |-> IntV(max_id.n + 2)]
  ELSE [ok |-> FALSE, v |-> NoneV]

\* (mutation) the increment is forgotten
NextIdSame(max_id) ==
  IF max_id.k = "null" THEN [ok |-> TRUE, v |-> IntV(1)]
  ELSE IF max_id.k = "int" THEN [ok |-> TRUE, v |-> IntV(max_id.n)]
  ELSE [ok |-> FALSE, v |-> NoneV]

\* max_id + 1 if max_id is not None else 1; a text max_id raises TypeError
NextId(max_id) ==
  IF max_id.k = "null" THEN [ok |-> TRUE, v |-> IntV(1)]
  ELSE IF max_id.k = "int" THEN [ok |-> TRUE, v |-> IntV(max_id.n + 1)]
  ELSE IF max_id.k = "real" THEN [ok |-> TRUE, v |-> RealV(max_id.n + 10)]
  ELSE [ok |-> FALSE, v |-> NoneV]

\* (mutation) result > 1
EntryExistsTwice(d, table, kwargs) ==
  LET c == CountWhere(d, table, kwargs) IN [ok |-> c.ok, result |-> c.n > 1]

\* result > 0
EntryAlreadyExists(d, table, kwargs) ==
  LET c == CountWhere(d, table, kwargs) IN [ok |-> c.ok, result |-> c.n > 0]


(***************************************************************************)
(* The program's tables (main program) and the texts fed to the prompts.   *)
(***************************************************************************)
TableNames == {"Drinks", "Ingredients", "DrinkRecipes"}

DrinksCols ==
  <<Col("id", "INTEGER"), Col("drink_name", "TEXT"), Col("drink_description", "TEXT"),
    Col("drink_method", "TEXT"), Col("drink_garnish", "TEXT")>>

IngredientsCols ==
  <<Col("id", "INTEGER"), Col("ingredient_category", "TEXT"), Col("ingredient_group", "TEXT"),
    Col("ingredient_name", "TEXT"), Col("ingredient_brand", "TEXT"),
    Col("ingredient_description", "TEXT"), Col("ingredient_measure", "TEXT"),
    Col("ingredient_abv", "REAL")>>

DrinkRecipesCols ==
  <<Col("id", "INTEGER"), Col("drink_id", "INTEGER"), Col("ingredient_id", "INTEGER"),
    Col("ingredient_volume", "REAL")>>

Negroni == <<"N", "e", "g", "r", "o", "n", "i">>
Classic == <<"C", "l", "a", "s", "s", "i", "c">>
Stirred == <<"S", "t", "i", "r", "r", "e", "d">>
OrangePeel == <<"O", "r", "a", "n", "g", "e", " ", "p", "e", "e", "l">>
Gin == <<"G", "i", "n">>

\* what the user types at the prompts of Drink.create: name, description,
\* method, garnish
DrinkInputs == {<<Negroni, Classic, Stirred, OrangePeel>>, <<Gin, <<>>, Stirred, <<>>>>}

\* ... and of Ingredient.create: category, group, name, brand, description,
\* measure
IngredientInputs == {<<<<"S">>, Gin, <<"G">>, <<"B">>, <<>>, <<"m", "l">>>>}

\* ... and at "Enter the ABV: "
AbvLines == {<<"4", "0">>, <<"n", "a", "n">>, <<"a", "b", "c">>}

\* the table whose MAX(id) a builder reads
ClassTable(cls) == IF cls = "Drink" THEN "Drinks" ELSE "Ingredients"

ClassCols(table) ==
  IF table = "Drinks" THEN DrinksCols
  ELSE IF table = "Ingredients" THEN IngredientsCols
  ELSE DrinkRecipesCols

(***************************************************************************)
(* Control state.  stmt is the statement of the main program being run     *)
(* ("api" when the functions are called one by one by a caller), pc the    *)
(* position inside the running call, call its arguments and locals.        *)
(***************************************************************************)
Stmts == <<"L332", "L343", "L357", "L367", "L370", "L373", "L374", "L375", "exit">>

Succ(st) ==
  IF st = "api" THEN "api"
  ELSE Stmts[(CHOOSE i \in 1..Len(Stmts) : Stmts[i] = st) + 1]

Frame(fn, table, cls, cols, values, kwargs) ==
  [fn |-> fn, table |-> table, cls |-> cls, cols |-> cols, values |-> values,
   kwargs |-> kwargs, ext |-> {}]

NoCall == Frame("", "", "", <<>>, <<>>, <<>>)

NoOut == [msg |-> "", table |-> "", cols |-> <<>>, rows |-> <<>>]
NoRet == [set |-> "none", b |-> FALSE, v |-> <<>>]
NoIns == [table |-> "", values |-> <<>>, before |-> <<>>]

\* the call each statement of the main program makes
MainCall(st) ==
  CASE st = "L332" -> Frame("create_table", "Drinks", "", DrinksCols, <<>>, <<>>)
    [] st = "L343" -> Frame("create_table", "Ingredients", "", IngredientsCols, <<>>, <<>>)
    [] st = "L357" -> Frame("create_table", "DrinkRecipes", "", DrinkRecipesCols, <<>>, <<>>)
    [] st = "L367" -> Frame("ask_and_insert_entry", "Drinks", "Drink", <<>>, <<>>, <<>>)
    [] st = "L370" -> Frame("ask_and_insert_entry", "Ingredients", "Ingredient", <<>>, <<>>, <<>>)
    [] st = "L373" -> Frame("view_table", "Drinks", "", <<>>, <<>>, <<>>)
    [] st = "L374" -> Frame("view_table", "Ingredients", "", <<>>, <<>>, <<>>)
    [] st = "L375" -> Frame("view_table", "DrinkRecipes", "", <<>>, <<>>, <<>>)

\* first position of a call
Entry(fn) == IF fn \in {"ask_and_insert_entry", "Drink.create", "Ingredient.create"} THEN "create" ELSE fn

\* a call that can add a row is started only below the row bound
Grows(f) == f.fn \in {"ask_and_insert_entry", "insert_into_table"}

TotalRows == Len(db["Drinks"].rows) + Len(db["Ingredients"].rows) + Len(db["DrinkRecipes"].rows)

Room(f) == IF stmt = "api" THEN TotalRows < MaxApiRows ELSE Len(db[f.table].rows) < MaxRows

Begin(f) ==
  /\ pc = "idle"
  /\ Grows(f) => Room(f)
  /\ pc' = Entry(f.fn)
  /\ call' = f
  /\ out' = NoOut
  /\ ret' = NoRet
  /\ err' = ""
  /\ UNCHANGED <<db, open, stmt, ins, stdin, nread, rejected, writes>>

\* the function returns to its caller
Return == pc' = "idle" /\ stmt' = Succ(stmt) /\ err' = ""

\* the statement raises with the connection open: conn.close() is skipped,
\* the exception is not caught and ends the run
RaiseOpen(e) == pc' = "raised" /\ stmt' = stmt /\ err' = e /\ open' = open + 1

\* an exception raised after conn.close()
RaiseClosed(e) == pc' = "raised" /\ stmt' = stmt /\ err' = e /\ open' = open


(***************************************************************************)
(* The generic table layer.                                                *)
(***************************************************************************)
create_table ==
  /\ pc = "create_table"
  /\ LET r == CreateIfNotExists(db, call.table, call.cols)
     IN IF r.ok
        THEN db' = r.db /\ open' = open /\ Return
        ELSE db' = db /\ RaiseOpen("OperationalError")
  /\ UNCHANGED <<call, out, ret, ins, stdin, nread, rejected, writes>>

insert_into_table ==
  /\ pc = "insert_into_table"
  /\ LET r == InsertValues(db, call.table, call.values)
     IN IF r.ok
        THEN /\ db' = r.db
             /\ ins' = [table |-> call.table, values |-> call.values,
                        before |-> db[call.table].rows]
             /\ open' = open
             /\ Return
        ELSE db' = db /\ ins' = ins /\ RaiseOpen("OperationalError")
  /\ UNCHANGED <<call, out, ret, stdin, nread, rejected, writes>>

entry_already_exists ==
  /\ pc = "entry_already_exists"
  /\ LET r == EntryAlreadyExists(db, call.table, call.kwargs)
     IN IF r.ok
        THEN /\ ret' = [set |-> "bool", b |-> r.result, v |-> <<>>]
             /\ open' = open
             /\ IF call.fn = "ask_and_insert_entry"
                THEN pc' = "check" /\ stmt' = stmt /\ err' = ""
                ELSE Return
        ELSE ret' = ret /\ RaiseOpen("OperationalError")
  /\ UNCHANGED <<db, call, out, ins, stdin, nread, rejected, writes>>

view_table ==
  /\ pc = "view_table"
  /\ LET r == SelectAll(db, call.table)
     IN IF r.ok
        THEN /\ out' = [msg |-> "table", table |-> call.table, cols |-> r.cols, rows |-> r.rows]
             /\ open' = open
             /\ Return
        ELSE out' = out /\ RaiseOpen("OperationalError")
  /\ UNCHANGED <<db, call, ret, ins, stdin, nread, rejected, writes>>

(***************************************************************************)
(* The entry builders and ask_and_insert_entry.                            *)
(***************************************************************************)
\* the builder's read of MAX(id) and the new id
ReadNewId(table) ==
  /\ pc = "create"
  /\ LET m == SelectMaxId(db, table)
         nid == NextId(m.v)
     IN IF ~m.ok THEN call' = call /\ RaiseOpen("OperationalError")
        ELSE IF ~nid.ok THEN call' = call /\ RaiseClosed("TypeError")
        ELSE /\ call' = [call EXCEPT !.values = <<nid.v>>, !.ext = {}]
             /\ pc' = "prompts"
             /\ UNCHANGED <<open, stmt, err>>
  /\ UNCHANGED <<db, out, ret, ins, stdin, nread, rejected, writes>>

\* create() returns entry_data: to ask_and_insert_entry, which checks its id,
\* or to the caller
Created(entry_data) ==
  IF call.fn = "ask_and_insert_entry"
  THEN /\ call' = [call EXCEPT !.values = entry_data, !.kwargs = <<<<"id", entry_data[1]>>>>]
       /\ pc' = "entry_already_exists"
       /\ UNCHANGED <<stmt, err, ret>>
  ELSE /\ call' = [call EXCEPT !.values = entry_data]
       /\ ret' = [set |-> "tuple", b |-> FALSE, v |-> entry_data]
       /\ Return

Drink_create ==
  /\ call.cls = "Drink"
  /\ ReadNewId("Drinks")

Drink_inputs ==
  /\ pc = "prompts"
  /\ call.cls = "Drink"
  /\ \E typed \in DrinkInputs :
        Created(call.values \o [i \in 1..Len(typed) |-> TextV(typed[i])])
  /\ UNCHANGED <<db, open, out, ins, stdin, nread, rejected, writes>>

Ingredient_create ==
  /\ call.cls = "Ingredient"
  /\ ReadNewId("Ingredients")

Ingredient_inputs ==
  /\ pc = "prompts"
  /\ call.cls = "Ingredient"
  /\ \E typed \in IngredientInputs :
        call' = [call EXCEPT !.values = @ \o [i \in 1..Len(typed) |-> TextV(typed[i])]]
  /\ pc' = "ask_abv"
  /\ UNCHANGED <<db, open, stmt, out, ret, err, ins, stdin, nread, rejected, writes>>

\* Ingredient.ask_abv: get_float until a line converts
ask_abv ==
  /\ pc = "ask_abv"
  /\ \E line \in AbvLines :
        IF IsPyFloat(line)
        THEN Created(Append(call.values, PyFloat(line))) /\ out' = out
        ELSE /\ out' = [NoOut EXCEPT !.msg = "<<< Please enter numbers only >>>"]
             /\ UNCHANGED <<pc, stmt, call, ret, err>>
  /\ UNCHANGED <<db, open, ins, stdin, nread, rejected, writes>>

\* the branch of ask_and_insert_entry on the existence check
ask_and_insert_entry ==
  /\ pc = "check"
  /\ IF ret.b
     THEN /\ out' = [NoOut EXCEPT !.msg = "already exists", !.table = call.table]
          /\ Return
     ELSE /\ pc' = "insert_into_table"
          /\ UNCHANGED <<out, stmt, err>>
  /\ UNCHANGED <<db, open, call, ret, ins, stdin, nread, rejected, writes>>


(***************************************************************************)
(* The validated input readers, reading the lines of stdin in order.       *)
(***************************************************************************)
\* input() hands over the next line typed
Line == stdin[nread + 1]

Rejected(message) ==
  /\ rejected' = rejected + 1
  /\ out' = [NoOut EXCEPT !.msg = message]
  /\ UNCHANGED <<pc, ret>>

Accepted(value) ==
  /\ ret' = [set |-> "value", b |-> FALSE, v |-> <<value>>]
  /\ pc' = "idle"
  /\ UNCHANGED <<out, rejected>>

get_int ==
  /\ pc = "get_int"
  /\ nread < Len(stdin)
  /\ nread' = nread + 1
  /\ IF IsPyInt(Line)
     THEN Accepted(IntV(PyInt(Line)))
     ELSE Rejected("<<< Please enter whole numbers only >>>")
  /\ UNCHANGED <<db, open, stmt, call, err, ins, stdin, writes>>

get_float ==
  /\ pc = "get_float"
  /\ nread < Len(stdin)
  /\ nread' = nread + 1
  /\ IF IsPyFloat(Line)
     THEN Accepted(PyFloat(Line))
     ELSE Rejected("<<< Please enter numbers only >>>")
  /\ UNCHANGED <<db, open, stmt, call, err, ins, stdin, writes>>

get_str ==
  /\ pc = "get_str"
  /\ nread < Len(stdin)
  /\ nread' = nread + 1
  /\ IF IsAlpha(Line)
     THEN Accepted(TextV(Line))
     ELSE Rejected("<<< Please enter letters only >>>")
  /\ UNCHANGED <<db, open, stmt, call, err, ins, stdin, writes>>

(***************************************************************************)
(* The main program, run after run on the same database file.              *)
(***************************************************************************)
Main ==
  /\ stmt \notin {"api", "exit"}
  /\ Begin(MainCall(stmt))

\* the process ends (last statement done, or an uncaught exception) and the
\* program is started again: its connections are gone, the file stays
Restart ==
  /\ pc = "raised" \/ (pc = "idle" /\ stmt = "exit")
  /\ pc' = "idle"
  /\ stmt' = IF stmt = "api" THEN "api" ELSE Stmts[1]
  /\ open' = 0
  /\ call' = NoCall
  /\ out' = NoOut
  /\ ret' = NoRet
  /\ err' = ""
  /\ UNCHANGED <<db, ins, stdin, nread, rejected, writes>>

\* rows with pairwise distinct integer ids
RECURSIVE IdSeqs(_, _)
IdSeqs(ids, n) ==
  IF n = 0 THEN {<<>>}
  ELSE {<<>>} \cup
       UNION {{<<i>> \o u : u \in {t \in IdSeqs(ids, n - 1) : \A j \in 1..Len(t) : t[j] # i}} :
              i \in ids}

SeedRow(table, id) ==
  [i \in 1..Len(ClassCols(table)) |->
     IF i = 1 THEN IntV(id)
     ELSE IF ClassCols(table)[i].type = "REAL" THEN RealV(400)
     ELSE TextV(Gin)]

SeedTables(table) ==
  {NoTable} \cup
  {[exists |-> TRUE, cols |-> ClassCols(table),
    rows |-> [i \in 1..Len(q) |-> SeedRow(table, q[i])]] : q \in IdSeqs(1..MaxSeedId, MaxSeedRows)}

Init ==
  /\ \E d \in SeedTables("Drinks"), g \in SeedTables("Ingredients") :
        db = [t \in TableNames |->
                IF t = "Drinks" THEN d ELSE IF t = "Ingredients" THEN g ELSE NoTable]
  /\ open = 0
  /\ stmt = Stmts[1]
  /\ pc = "idle"
  /\ call = NoCall
  /\ out = NoOut
  /\ ret = NoRet
  /\ err = ""
  /\ ins = NoIns
  /\ stdin = <<>>
  /\ nread = 0
  /\ rejected = 0
  /\ writes = 0

Next ==
  \/ Main
  \/ create_table
  \/ Drink_create
  \/ Drink_inputs
  \/ Ingredient_create
  \/ Ingredient_inputs
  \/ ask_abv
  \/ entry_already_exists
  \/ ask_and_insert_entry
  \/ insert_into_table
  \/ view_table
  \/ Restart

Spec == Init /\ [][Next]_vars


(***************************************************************************)
(* Another writer on the same database file: it may add a row between two  *)
(* statements of the program.  call.ext collects the ids it adds to the    *)
(* builder's table between the builder's MAX(id) read and the existence    *)
(* check.                                                                  *)
(***************************************************************************)
InWindow(table) ==
  /\ call.fn = "ask_and_insert_entry"
  /\ call.table = table
  /\ pc \in {"prompts", "ask_abv", "entry_already_exists"}

\* ask_and_insert_entry(table, ...) has read MAX(id) and has not inserted yet
Pending(table) ==
  /\ call.fn = "ask_and_insert_entry"
  /\ call.table = table
  /\ pc \in {"prompts", "ask_abv", "entry_already_exists", "check", "insert_into_table"}

ExternalWrite ==
  \E table \in {"Drinks", "Ingredients"}, id \in 1..MaxExtId :
    /\ Pending(table)
    /\ writes < MaxExtWrites
    /\ writes' = writes + 1
    /\ db[table].exists
    /\ Len(db[table].rows) + 1 < MaxRows
    /\ db' = [db EXCEPT ![table].rows = Append(@, SeedRow(table, id))]
    /\ call' = IF InWindow(table) THEN [call EXCEPT !.ext = @ \cup {id}] ELSE call
    /\ UNCHANGED <<open, stmt, pc, out, ret, err, ins, stdin, nread, rejected>>

\* the database file as the program finds it: both tables absent, or both
\* holding rows with the same ids
InitExt ==
  /\ Init
  /\ db["Drinks"].exists = db["Ingredients"].exists
  /\ Len(db["Drinks"].rows) = Len(db["Ingredients"].rows)
  /\ \A i \in 1..Len(db["Drinks"].rows) : db["Drinks"].rows[i][1] = db["Ingredients"].rows[i][1]

NextExt ==
  \/ Next
  \/ ExternalWrite

SpecExt == InitExt /\ [][NextExt]_vars

(***************************************************************************)
(* A caller that calls the functions one by one, in any order, on a fresh  *)
(* database file.                                                          *)
(***************************************************************************)
ApiTables == {"Drinks", "Ingredients"}

ApiValues == {IntV(1), TextV(<<"7">>), TextV(<<"a">>), RealV(25), NanV, NoneV}

ApiColumns(t) ==
  {<<Col("id", "INTEGER")>>,
   <<Col("note", "TEXT"), Col("abv", "REAL")>>,
   <<Col("note", "TEXT"), Col("note", "TEXT")>>,
   ClassCols(t)}

ApiRows ==
  {<<>>} \cup {<<v>> : v \in ApiValues} \cup {<<IntV(1), IntV(1)>>, <<TextV(<<"a">>), NanV>>}

ApiKwargs ==
  {<<>>, <<<<"nope", IntV(1)>>>>, <<<<"note", IntV(1)>>, <<"abv", IntV(1)>>>>}
  \cup {<<<<"id", v>>>> : v \in {IntV(1), TextV(<<"7">>), NoneV}}

ApiCalls ==
  UNION {{Frame("create_table", t, "", c, <<>>, <<>>) : c \in ApiColumns(t)} : t \in ApiTables}
  \cup {Frame("insert_into_table", t, "", <<>>, v, <<>>) : t \in ApiTables, v \in ApiRows}
  \cup {Frame("entry_already_exists", t, "", <<>>, <<>>, k) : t \in ApiTables, k \in ApiKwargs}
  \cup {Frame("view_table", t, "", <<>>, <<>>, <<>>) : t \in ApiTables}
  \cup {Frame("ask_and_insert_entry", t, c, <<>>, <<>>, <<>>) :
          t \in ApiTables, c \in {"Drink", "Ingredient"}}
  \cup {Frame("Drink.create", "", "Drink", <<>>, <<>>, <<>>),
        Frame("Ingredient.create", "", "Ingredient", <<>>, <<>>, <<>>)}

ApiCall ==
  /\ stmt = "api"
  /\ \E f \in ApiCalls : Begin(f)

InitApi ==
  /\ db = [t \in TableNames |-> NoTable]
  /\ open = 0
  /\ stmt = "api"
  /\ pc = "idle"
  /\ call = NoCall
  /\ out = NoOut
  /\ ret = NoRet
  /\ err = ""
  /\ ins = NoIns
  /\ stdin = <<>>
  /\ nread = 0
  /\ rejected = 0
  /\ writes = 0

NextApi ==
  \/ ApiCall
  \/ create_table
  \/ Drink_create
  \/ Drink_inputs
  \/ Ingredient_create
  \/ Ingredient_inputs
  \/ ask_abv
  \/ entry_already_exists
  \/ ask_and_insert_entry
  \/ insert_into_table
  \/ view_table
  \/ Restart

SpecApi == InitApi /\ [][NextApi]_vars


(***************************************************************************)
(* A reader called on a given stream of typed lines.  At the end of the    *)
(* stream the reader waits in input().                                     *)
(***************************************************************************)
ReaderLines ==
  {<<"a", "b", "c">>, <<"1", "2", ".", "5">>, <<"7">>, <<"J", "o", "h", "n", "3">>,
   <<"A", "n", "n", " ", "S", "m", "i", "t", "h">>, <<"J", "o", "h", "n">>, <<>>,
   <<" ", "-", "1", "_", "0">>}

RECURSIVE Streams(_)
Streams(n) ==
  IF n = 0 THEN {<<>>}
  ELSE {<<>>} \cup {<<l>> \o t : l \in ReaderLines, t \in Streams(n - 1)}

InitReader ==
  /\ db = [t \in TableNames |-> NoTable]
  /\ open = 0
  /\ stmt = "api"
  /\ pc \in {"get_int", "get_float", "get_str"}
  /\ call = [NoCall EXCEPT !.fn = pc]
  /\ out = NoOut
  /\ ret = NoRet
  /\ err = ""
  /\ ins = NoIns
  /\ stdin \in Streams(MaxLines)
  /\ nread = 0
  /\ rejected = 0
  /\ writes = 0

NextReader ==
  \/ get_int
  \/ get_float
  \/ get_str

\* a line that has been typed is read: input() returns and the loop goes on
SpecReader == InitReader /\ [][NextReader]_vars /\ WF_vars(NextReader)


(***************************************************************************)
(* Properties.                                                             *)
(***************************************************************************)
EntityTables == {"Drinks", "Ingredients"}

IdOf(row) == row[1]

\* the greatest of the integer ids of the rows, 0 when there is none
GreatestId(rows) ==
  LET S == {IdOf(rows[i]).n : i \in 1..Len(rows)}
  IN IF S = {} THEN 0 ELSE CHOOSE m \in S : \A x \in S : x <= m

IsPrefix(a, b) == Len(a) <= Len(b) /\ SubSeq(b, 1, Len(a)) = a

\* C1: in the main program run alone, started on tables whose rows have
\* pairwise distinct ids, no two rows of Drinks (or of Ingredients) ever have
\* the same id, and every row ask_and_insert_entry adds carries an integer id
\* one more than the greatest id the table held when the row was built.
C1_IdentifierUniqueness ==
  /\ \A t \in EntityTables :
        \A i, j \in 1..Len(db[t].rows) :
           IdOf(db[t].rows[i]) = IdOf(db[t].rows[j]) => i = j
  /\ ins.table # "" => ins.values[1] = IntV(GreatestId(ins.before) + 1)

C1_Witness ==
  /\ ins.table = "Ingredients"
  /\ Len(ins.before) = 2
  /\ Len(db["Ingredients"].rows) = 3
  /\ ins.values[1] = IntV(3)

\* C3: right after Drink.create / Ingredient.create has read MAX(id), the id
\* it puts first in its tuple is 1 when its own table has no rows and the
\* greatest id of its own table plus one otherwise, whatever the other
\* tables hold.
C3_NextIdentifierRule ==
  pc = "prompts" =>
     LET rows == db[ClassTable(call.cls)].rows
     IN IF Len(rows) = 0 THEN call.values = <<IntV(1)>>
        ELSE call.values = <<IntV(GreatestId(rows) + 1)>>

C3_Witness ==
  /\ pc = "prompts"
  /\ call.cls = "Ingredient"
  /\ Len(db["Ingredients"].rows) = 1
  /\ call.values = <<IntV(3)>>
  /\ Len(db["Drinks"].rows) = 3


\* C10: when the existence check of ask_and_insert_entry finds the freshly
\* computed id (and the "already exists" message is printed), another writer
\* has added a row with that id to the table between the builder's MAX(id)
\* read and the check; a program running alone always goes on to insert.
C10_DuplicateOnlyByInterference ==
  /\ (pc = "check" /\ ret.b) => call.values[1] \in {IntV(i) : i \in call.ext}
  /\ out.msg = "already exists" => call.values[1] \in {IntV(i) : i \in call.ext}
  /\ (pc = "check" /\ call.ext = {}) => ~ret.b

C10_Witness ==
  /\ out.msg = "already exists"
  /\ pc = "idle"
  /\ call.table = "Drinks"
  /\ call.values[1] = IntV(1)
  /\ call.ext = {1}

\* the row of the candidate as insert_into_table stores it
CandidateRow(t) == StoredRow(db[t].cols, call.values)

HasId(t, id) == \E r \in 1..Len(db[t].rows) : IdOf(db[t].rows[r]) = id

\* C2: the existence check of ask_and_insert_entry answers true exactly when
\* some stored row of the table has the candidate's id, whatever the other
\* cells are; then the program prints the message and returns with every
\* table unchanged; otherwise its insert appends exactly one row, the
\* candidate's, after the stored rows and changes nothing else.
C2_DuplicateRejection ==
  [][/\ (pc = "entry_already_exists" /\ call.fn = "ask_and_insert_entry" /\ pc' # pc) =>
          /\ pc' = "check"
          /\ ret'.b = HasId(call.table, call.values[1])
          /\ db' = db
     /\ (pc = "check" /\ pc' # pc) =>
          /\ db' = db
          /\ IF ret.b THEN pc' = "idle" /\ out'.msg = "already exists"
             ELSE pc' = "insert_into_table" /\ call' = call
     /\ (pc = "insert_into_table" /\ call.fn = "ask_and_insert_entry" /\ pc' # pc) =>
          /\ pc' = "idle"
          /\ db' = [db EXCEPT ![call.table].rows = Append(@, CandidateRow(call.table))]
    ]_vars

\* the candidate was rejected for its id alone: the stored row differs from it
C2_Witness ==
  /\ out.msg = "already exists"
  /\ pc = "idle"
  /\ HasId(call.table, call.values[1])
  /\ \A r \in 1..Len(db[call.table].rows) : db[call.table].rows[r] # CandidateRow(call.table)
  /\ Len(db[call.table].rows) = 2


\* C4: whenever no store access is under way (between two statements and
\* after an operation has ended, normally or with an exception), no
\* connection opened by an operation is left unclosed.
C4_ConnectionsReleased == open = 0

\* C5: insert_into_table called with a number of values different from the
\* column count of the existing target table ends with an exception and
\* leaves every table as it was.
C5_ArityMismatchFails ==
  [][(/\ pc = "insert_into_table"
      /\ db[call.table].exists
      /\ Len(call.values) # Len(db[call.table].cols)
      /\ pc' # pc) =>
        /\ pc' = "raised"
        /\ err' = "OperationalError"
        /\ db' = db
    ]_vars

C5_Witness ==
  /\ pc = "raised"
  /\ call.fn = "insert_into_table"
  /\ db[call.table].exists
  /\ Len(db[call.table].rows) = 1
  /\ Len(call.values) = 2
  /\ Len(db[call.table].cols) = 1

\* view_table shows the table of the latest insert_into_table that succeeded
Shown == pc = "idle" /\ out.msg = "table" /\ ins.table # "" /\ out.table = ins.table

\* the rows shown have the inserted values, cell by cell, right after the
\* rows stored before the insert
RoundTrip ==
  /\ Len(out.rows) > Len(ins.before)
  /\ SubSeq(out.rows, 1, Len(ins.before)) = ins.before
  /\ RowEq(out.rows[Len(ins.before) + 1], ins.values)

\* C6 as claimed: for any values of matching arity, view_table after
\* insert_into_table shows a row equal to the values, after the earlier rows.
C6_RoundTripAnyValues == Shown => RoundTrip

\* each value has the Python type of its column's declared type (None fits
\* any column, a NaN float fits none)
TypesMatch(cols, values) ==
  \A i \in 1..Len(values) :
     \/ values[i].k = "null"
     \/ cols[i].type = "INTEGER" /\ values[i].k = "int"
     \/ cols[i].type = "TEXT" /\ values[i].k = "text"
     \/ cols[i].type = "REAL" /\ values[i].k = "real"

\* C6 (amended): for values of matching arity whose types are those the
\* columns declare (int for INTEGER, str for TEXT, a float that is not NaN
\* for REAL, or None), view_table after insert_into_table shows a row equal
\* to the values, in column order, right after the rows stored before.
C6_RoundTripTypedValues ==
  (Shown /\ TypesMatch(db[ins.table].cols, ins.values)) => RoundTrip

C6_Witness ==
  /\ Shown
  /\ TypesMatch(db[ins.table].cols, ins.values)
  /\ Len(ins.before) = 1
  /\ Len(ins.values) = Len(DrinksCols)
  /\ Len(out.rows) = 2

\* C7: create_table for a table that exists, with the same or another column
\* list, returns without an exception and leaves every table (columns and
\* rows) as it was; and a second create_table with the same arguments right
\* after any create_table that returned would change nothing.
C7_CreateTableIdempotent ==
  [][/\ (pc = "create_table" /\ db[call.table].exists /\ pc' # pc) =>
          /\ pc' = "idle"
          /\ err' = ""
          /\ db' = db
          /\ open' = open
     /\ (pc = "create_table" /\ pc' = "idle") =>
          /\ db'[call.table].exists
          /\ CreateIfNotExists(db', call.table, call.cols) = [ok |-> TRUE, db |-> db']
    ]_vars

C7_Witness ==
  /\ pc = "idle"
  /\ call.fn = "create_table"
  /\ err = ""
  /\ db[call.table].cols # call.cols
  /\ Len(call.cols) # Len(db[call.table].cols)
  /\ Len(db[call.table].rows) = 2

\* C8: no step removes a table, changes its columns, or removes or changes a
\* stored row: the rows a table had are a prefix of the rows it has after.
C8_AppendOnly ==
  [][\A t \in TableNames :
        /\ db[t].exists => (db'[t].exists /\ db'[t].cols = db[t].cols)
        /\ IsPrefix(db[t].rows, db'[t].rows)
    ]_vars

C8_Witness ==
  /\ pc = "idle"
  /\ call.fn = "ask_and_insert_entry"
  /\ ins.table = "Drinks"
  /\ Len(ins.before) = 1
  /\ Len(ins.before[1]) = Len(DrinksCols)
  /\ db["Drinks"].rows = Append(ins.before, StoredRow(DrinksCols, ins.values))
  /\ db["Ingredients"].exists


\* what each reader takes for a valid line, and the value it returns for it
ValidLine(fn, line) ==
  IF fn = "get_int" THEN IsPyInt(line)
  ELSE IF fn = "get_str" THEN Len(line) > 0 /\ \A i \in 1..Len(line) : line[i] \in Letters
  ELSE IsPyFloat(line)

ValueOf(fn, line) ==
  IF fn = "get_int" THEN IntV(PyInt(line))
  ELSE IF fn = "get_str" THEN TextV(line)
  ELSE PyFloat(line)

Returned == pc = "idle"

John == <<"J", "o", "h", "n">>

\* every line read so far but the one returned was invalid and was answered
\* with an error message; the line returned is valid and is the value
ReaderSafe ==
  /\ \A i \in 1..nread : ValidLine(call.fn, stdin[i]) <=> (Returned /\ i = nread)
  /\ rejected = IF Returned THEN nread - 1 ELSE nread
  /\ Returned => ret.v = <<ValueOf(call.fn, stdin[nread])>>
  /\ (Returned /\ call.fn = "get_int"
        /\ stdin = <<<<"a", "b", "c">>, <<"1", "2", ".", "5">>, <<"7">>>>) =>
       (ret.v = <<IntV(7)>> /\ rejected = 2)
  /\ (Returned /\ call.fn = "get_str"
        /\ stdin = <<<<"J", "o", "h", "n", "3">>,
                     <<"A", "n", "n", " ", "S", "m", "i", "t", "h">>, John>>) =>
       (ret.v = <<TextV(John)>> /\ rejected = 2)

\* C9: get_int and get_str (and get_float) return the first valid line of
\* the stream, as its value, after rejecting every earlier line with an
\* error message; they return whenever a valid line is in the stream, and
\* only then.
C9_ValidatedReaders ==
  /\ []ReaderSafe
  /\ [](Returned => \E i \in 1..Len(stdin) : ValidLine(call.fn, stdin[i]))
  /\ ((\E i \in 1..Len(stdin) : ValidLine(call.fn, stdin[i])) ~> Returned)

C9_Witness ==
  /\ Returned
  /\ call.fn = "get_str"
  /\ stdin = <<<<"J", "o", "h", "n", "3">>,
               <<"A", "n", "n", " ", "S", "m", "i", "t", "h">>, John>>
  /\ ret.v = <<TextV(John)>>
  /\ rejected = 2

====
